---- MODULE Spec2Model ----
(***************************************************************************)
(* Model of wasm/rust/src/lib.rs: the OrganismState simulation record, the *)
(* RuleRegistry, and the apply_rule coordinator.                           *)
(*                                                                         *)
(* f64 values are modelled as fixed-point integers with Digits decimal     *)
(* digits, a largest finite magnitude, the two infinities and NaN.  Every  *)
(* arithmetic operation rounds its result, overflows to an infinity and    *)
(* propagates NaN as IEEE-754 does.  u64 values are modelled modulo        *)
(* U64Modulus.                                                             *)
(***************************************************************************)
EXTENDS Integers, Sequences, FiniteSets, TLC

VARIABLES
    state,            \* the OrganismState object
    rules,            \* RuleRegistry.rules : id -> Rule
    execution_order,  \* RuleRegistry.execution_order
    aborted,          \* TRUE once an operation has panicked
    last              \* the last operation: name, arguments, outcome

vars == <<state, rules, execution_order, aborted, last>>

---------------------------------------------------------------------------
(* Bounds of the model *)

Digits == 2
MaxMagnitude == 20000
MaxAge == 2
MaxCount == 2
U64Bits == 20

Scale == 10 ^ Digits
MaxFinite == MaxMagnitude * Scale
U64Modulus == 2 ^ U64Bits
U64Max == U64Modulus - 1

---------------------------------------------------------------------------
(* f64 *)

Inf == MaxFinite + 1
NegInf == -Inf
NaN == MaxFinite + 2

\* The f64 nearest to whole + hundredths/100.
Lit(whole, hundredths) == whole * Scale + hundredths * (Scale \div 100)

Abs(n) == IF n < 0 THEN -n ELSE n

Round(n) == IF n > MaxFinite THEN Inf ELSE IF n < -MaxFinite THEN NegInf ELSE n

IsInfinite(x) == x = Inf \/ x = NegInf

IsFinite(x) == x # NaN /\ ~IsInfinite(x)

FNeg(x) == IF x = NaN THEN NaN ELSE -x

FAdd(a, b) ==
    IF a = NaN \/ b = NaN THEN NaN
    ELSE IF a = Inf THEN (IF b = NegInf THEN NaN ELSE Inf)
    ELSE IF a = NegInf THEN (IF b = Inf THEN NaN ELSE NegInf)
    ELSE IF IsInfinite(b) THEN b
    ELSE Round(a + b)

FSub(a, b) == FAdd(a, FNeg(b))

\* Product of two finite magnitudes, rounded to nearest.
MulMag(a, b) ==
    LET qa == a \div Scale
        ra == a % Scale
        qb == b \div Scale
        rb == b % Scale
    IN  IF qa * qb > MaxMagnitude THEN Inf
        ELSE Round(qa * qb * Scale + qa * rb + ra * qb
                   + (ra * rb + Scale \div 2) \div Scale)

FMul(a, b) ==
    IF a = NaN \/ b = NaN THEN NaN
    ELSE IF IsInfinite(a) \/ IsInfinite(b)
         THEN (IF a = 0 \/ b = 0 THEN NaN
               ELSE IF (a < 0) = (b < 0) THEN Inf ELSE NegInf)
    ELSE IF (a < 0) = (b < 0) THEN MulMag(Abs(a), Abs(b))
    ELSE -MulMag(Abs(a), Abs(b))

\* Quotient of a finite magnitude by a finite positive divisor, rounded to nearest.
DivMag(a, b) ==
    LET q == a \div b
        r == a % b
    IN  IF q > MaxMagnitude THEN Inf
        ELSE Round(q * Scale + (r * Scale + b \div 2) \div b)

\* Division by a finite positive divisor (the code divides by constants only).
FDiv(a, b) ==
    IF a = NaN THEN NaN
    ELSE IF IsInfinite(a) THEN a
    ELSE IF a < 0 THEN -DivMag(-a, b)
    ELSE DivMag(a, b)

\* f64::max and f64::min: a NaN operand is ignored.
FMax(a, b) == IF a = NaN THEN b ELSE IF b = NaN THEN a ELSE IF a >= b THEN a ELSE b

FMin(a, b) == IF a = NaN THEN b ELSE IF b = NaN THEN a ELSE IF a <= b THEN a ELSE b

\* IEEE comparison: false when an operand is NaN.
FLe(a, b) == a # NaN /\ b # NaN /\ a <= b

\* u64 as f64
U64ToF64(n) == IF n > MaxMagnitude THEN MaxFinite ELSE n * Scale

---------------------------------------------------------------------------
(* f64 literals of the source *)

Zero == Lit(0, 0)
One == Lit(1, 0)
Two == Lit(2, 0)
Three == Lit(3, 0)
Ten == Lit(10, 0)
Tenth == Lit(0, 10)
Hundredth == Lit(0, 1)
Half == Lit(0, 50)
Hundred == Lit(100, 0)
Thousand == Lit(1000, 0)
TenThousand == Lit(10000, 0)

---------------------------------------------------------------------------
(* JSON text, as serde_json writes and reads it *)

\* A JSON value: an integer literal, a number with a fraction, null, a string,
\* an array or an object.
JInt(n) == [t |-> "int", v |-> n]
JFloat(x) == [t |-> "float", v |-> x]
JNull == [t |-> "null", v |-> 0]
JString(str) == [t |-> "string", v |-> str]
JArray(seq) == [t |-> "array", v |-> seq]
JObject(map) == [t |-> "object", v |-> map]

\* serde_json writes a finite f64 as a number and a non-finite one as null.
SerF64(x) == IF IsFinite(x) THEN JFloat(x) ELSE JNull

SerU64(n) == JInt(n)

IntToF64(n) ==
    IF n > MaxMagnitude THEN MaxFinite
    ELSE IF n < -MaxMagnitude THEN -MaxFinite
    ELSE n * Scale

\* Deserializing an f64 accepts any number; a u64 only a non-negative integer in range.
F64Ok(j) == j.t \in {"int", "float"}
DeF64(j) == IF j.t = "int" THEN IntToF64(j.v) ELSE j.v

U64Ok(j) == j.t = "int" /\ j.v >= 0 /\ j.v <= U64Max
DeU64(j) == j.v

---------------------------------------------------------------------------
(* OrganismState *)

F64Fields == {"population", "energy", "mutation_rate", "selection_pressure",
              "adaptation_score"}
U64Fields == {"generation", "age"}
SerdeFields == F64Fields \cup U64Fields

New ==
    [population |-> Lit(100, 0),
     energy |-> Lit(1000, 0),
     generation |-> 0,
     age |-> 0,
     mutation_rate |-> Lit(0, 1),
     selection_pressure |-> Lit(0, 50),
     adaptation_score |-> Lit(0, 0),
     state_vector |-> <<Lit(100, 0), Lit(1000, 0), Lit(0, 1)>>]

calculate_adaptation_score(s) ==
    LET pop_score == FMin(FDiv(s.population, Hundred), Two)
        energy_score == FMin(FDiv(s.energy, Thousand), One)
        age_score == FMin(FDiv(U64ToF64(s.age), Hundred), One)
    IN  FDiv(FAdd(FAdd(pop_score, energy_score), age_score), Three)

\* Mutant of StepClamp: the clamps are missing.
StepClampLossy(population, energy) ==
    [population |-> population, energy |-> energy]

\* The clamps of step.
StepClamp(population, energy) ==
    [population |-> FMax(population, One),
     energy |-> FMin(FMax(energy, Zero), TenThousand)]

\* The scalar updates of step, up to and including the clamps.
StepScalars(s, delta_time) ==
    LET growth_rate == FMul(FDiv(s.energy, Thousand), FSub(One, s.mutation_rate))
        population == FAdd(s.population, FMul(FMul(s.population, growth_rate), delta_time))
        energy_consumption == FMul(FMul(population, Tenth), delta_time)
        energy_regen == FMul(Ten, delta_time)
        energy == FAdd(FSub(s.energy, energy_consumption), energy_regen)
        clamped == StepClamp(population, energy)
    IN  [s EXCEPT !.age = (s.age + 1) % U64Modulus,
                  !.population = clamped.population,
                  !.energy = clamped.energy]

\* Indexed stores v[0] = a; v[1] = b; v[2] = c in order: the first store past the
\* end of the vector panics, the stores before it have happened.
StoreThree(v, a, b, c) ==
    [i \in 1..Len(v) |-> IF i = 1 THEN a ELSE IF i = 2 THEN b ELSE IF i = 3 THEN c ELSE v[i]]

\* Indexed store v[k] = x (k counted from 0): out of bounds panics, vector untouched.
StoreAt(v, k, x) == [i \in 1..Len(v) |-> IF i = k + 1 THEN x ELSE v[i]]

get_snapshot(s) ==
    [wf |-> TRUE,
     fields |-> [population |-> SerF64(s.population),
                 energy |-> SerF64(s.energy),
                 generation |-> SerU64(s.generation),
                 age |-> SerU64(s.age),
                 mutation_rate |-> SerF64(s.mutation_rate),
                 selection_pressure |-> SerF64(s.selection_pressure),
                 adaptation_score |-> SerF64(s.adaptation_score)]]

\* serde_json::from_str::<OrganismState>: every serialized field is required,
\* unknown fields are ignored, state_vector (serde skip) is never read.
Parses(text) ==
    /\ text.wf
    /\ SerdeFields \subseteq DOMAIN text.fields
    /\ \A f \in F64Fields : F64Ok(text.fields[f])
    /\ \A f \in U64Fields : U64Ok(text.fields[f])

\* The deserialized record: state_vector takes Vec::default().
Deserialized(text) ==
    [population |-> DeF64(text.fields.population),
     energy |-> DeF64(text.fields.energy),
     generation |-> DeU64(text.fields.generation),
     age |-> DeU64(text.fields.age),
     mutation_rate |-> DeF64(text.fields.mutation_rate),
     selection_pressure |-> DeF64(text.fields.selection_pressure),
     adaptation_score |-> DeF64(text.fields.adaptation_score),
     state_vector |-> <<>>]

---------------------------------------------------------------------------
(* OrganismState operations: each yields the object afterwards, whether the   *)
(* call panicked, and the value returned.                                     *)

Outcome(s, panic, ret) == [state |-> s, panic |-> panic, ret |-> ret]

\* overflow_checks: the build panics on integer overflow (debug) or wraps (release).
step(s, delta_time, overflow_checks) ==
    IF s.age = U64Max /\ overflow_checks
    THEN Outcome(s, TRUE, Zero)
    ELSE LET s1 == StepScalars(s, delta_time)
             s2 == [s1 EXCEPT !.state_vector =
                        StoreThree(@, s1.population, s1.energy, s1.mutation_rate)]
             s3 == [s2 EXCEPT !.adaptation_score = calculate_adaptation_score(s2)]
         IN  IF Len(s.state_vector) < 3
             THEN Outcome(s2, TRUE, Zero)
             ELSE Outcome(s3, FALSE, s3.adaptation_score)

set_population(s, value) ==
    LET s1 == [s EXCEPT !.population = FMax(value, Zero)]
    IN  Outcome([s1 EXCEPT !.state_vector = StoreAt(@, 0, s1.population)],
                Len(s.state_vector) < 1, Zero)

set_energy(s, value) ==
    LET s1 == [s EXCEPT !.energy = FMax(value, Zero)]
    IN  Outcome([s1 EXCEPT !.state_vector = StoreAt(@, 1, s1.energy)],
                Len(s.state_vector) < 2, Zero)

set_generation(s, value) == Outcome([s EXCEPT !.generation = value], FALSE, Zero)

set_mutation_rate(s, value) ==
    LET s1 == [s EXCEPT !.mutation_rate = FMin(FMax(value, Zero), One)]
    IN  Outcome([s1 EXCEPT !.state_vector = StoreAt(@, 2, s1.mutation_rate)],
                Len(s.state_vector) < 3, Zero)

set_selection_pressure(s, value) ==
    Outcome([s EXCEPT !.selection_pressure = FMin(FMax(value, Zero), One)], FALSE, Zero)

\* Mutant of set_state_vector: the three fields are assigned, the vector is kept.
set_state_vector_fields(s, vector) ==
    IF Len(vector) >= 3
    THEN Outcome([s EXCEPT !.population = vector[1],
                           !.energy = vector[2],
                           !.mutation_rate = vector[3]], FALSE, Zero)
    ELSE Outcome(s, FALSE, Zero)

set_state_vector(s, vector) ==
    IF Len(vector) >= 3
    THEN Outcome([s EXCEPT !.population = vector[1],
                           !.energy = vector[2],
                           !.mutation_rate = vector[3],
                           !.state_vector = vector], FALSE, Zero)
    ELSE Outcome(s, FALSE, Zero)

\* Result<OrganismState, JsValue> of serde_json::from_str
from_str(text) ==
    IF Parses(text)
    THEN [ok |-> TRUE, value |-> Deserialized(text)]
    ELSE [ok |-> FALSE, value |-> New]

---------------------------------------------------------------------------
(* Inputs *)

DeltaTimes == {One, Lit(MaxMagnitude, 0)}
PopulationArgs == {Lit(-1, 0)}
EnergyArgs == {Lit(MaxMagnitude, 0), Inf}
MutationArgs == {NaN, Two}
SelectionArgs == {Two}
GenerationArgs == {7}
Vectors == {<<One, Two>>,
            <<Lit(5, 0), Lit(MaxMagnitude, 0), Two, Ten>>}

GoodText ==
    [wf |-> TRUE,
     fields |-> [population |-> JFloat(Lit(50, 0)),
                 energy |-> JInt(500),
                 generation |-> JInt(7),
                 age |-> JInt(1),
                 mutation_rate |-> JFloat(Half),
                 selection_pressure |-> JInt(1),
                 adaptation_score |-> JFloat(Zero),
                 state_vector |-> JArray(<<>>)]]

WithField(text, f, j) ==
    [text EXCEPT !.fields = [g \in DOMAIN text.fields \cup {f} |->
                                 IF g = f THEN j ELSE text.fields[g]]]

WithoutField(text, f) ==
    [text EXCEPT !.fields = [g \in DOMAIN text.fields \ {f} |-> text.fields[g]]]

Texts ==
    {GoodText,
     WithField(GoodText, "age", JInt(U64Max)),
     WithField(GoodText, "energy", JNull),
     WithoutField(GoodText, "mutation_rate"),
     [GoodText EXCEPT !.wf = FALSE]}

---------------------------------------------------------------------------
(* History *)

\* The build profiles that differ on incrementing counter n: integer overflow
\* panics (overflow-checks on, the debug default) or wraps (the release default).
Profiles(n) == IF n = U64Max THEN BOOLEAN ELSE {FALSE}

Call(op, args, outcome, err, ret) ==
    [op |-> op, args |-> args, outcome |-> outcome, err |-> err, ret |-> ret]

\* An OrganismState method that returns nothing that can fail.
StateCall(op, args, out) ==
    /\ state' = out.state
    /\ aborted' = out.panic
    /\ last' = Call(op, args, IF out.panic THEN "panic" ELSE "ok", "", out.ret)
    /\ UNCHANGED <<rules, execution_order>>

---------------------------------------------------------------------------
(* Actions on the OrganismState *)

Step ==
    \E delta_time \in DeltaTimes, overflow_checks \in Profiles(state.age) :
        /\ ~aborted
        /\ state.age < MaxAge \/ state.age = U64Max
        /\ StateCall("step", <<delta_time>>, step(state, delta_time, overflow_checks))

SetPopulation ==
    \E value \in PopulationArgs :
        /\ ~aborted
        /\ StateCall("set_population", <<value>>, set_population(state, value))

SetEnergy ==
    \E value \in EnergyArgs :
        /\ ~aborted
        /\ StateCall("set_energy", <<value>>, set_energy(state, value))

SetGeneration ==
    \E value \in GenerationArgs :
        /\ ~aborted
        /\ StateCall("set_generation", <<value>>, set_generation(state, value))

SetMutationRate ==
    \E value \in MutationArgs :
        /\ ~aborted
        /\ StateCall("set_mutation_rate", <<value>>, set_mutation_rate(state, value))

SetSelectionPressure ==
    \E value \in SelectionArgs :
        /\ ~aborted
        /\ StateCall("set_selection_pressure", <<value>>,
                     set_selection_pressure(state, value))

SetStateVector ==
    \E vector \in Vectors :
        /\ ~aborted
        /\ StateCall("set_state_vector", <<vector>>, set_state_vector(state, vector))

\* Mutant of load_snapshot: a failed parse leaves a default object behind.
load_snapshot_reset(s, snapshot_json) ==
    LET loaded == from_str(snapshot_json)
    IN  [ok |-> loaded.ok, state |-> loaded.value]

load_snapshot(s, snapshot_json) ==
    LET loaded == from_str(snapshot_json)
    IN  IF loaded.ok THEN [ok |-> TRUE, state |-> loaded.value]
        ELSE [ok |-> FALSE, state |-> s]

\* The text is the object's own snapshot or a text from outside.
LoadSnapshot ==
    \E snapshot_json \in Texts \cup {get_snapshot(state)} :
        LET r == load_snapshot(state, snapshot_json)
        IN  /\ ~aborted
            /\ state' = r.state
            /\ last' = Call("load_snapshot", <<snapshot_json>>,
                            IF r.ok THEN "ok" ELSE "err",
                            IF r.ok THEN "" ELSE "Failed to parse snapshot", Zero)
            /\ UNCHANGED <<rules, execution_order, aborted>>

\* init_from_config: on success the caller's organism is the object returned.
InitFromConfig ==
    \E config_json \in Texts :
        LET r == from_str(config_json)
        IN  /\ ~aborted
            /\ state' = IF r.ok THEN r.value ELSE state
            /\ last' = Call("init_from_config", <<config_json>>,
                            IF r.ok THEN "ok" ELSE "err",
                            IF r.ok THEN "" ELSE "Failed to parse config", Zero)
            /\ UNCHANGED <<rules, execution_order, aborted>>

NoRules == [id \in {} |-> 0]

Init ==
    /\ state = New
    /\ rules = NoRules
    /\ execution_order = <<>>
    /\ aborted = FALSE
    /\ last = Call("new", <<>>, "ok", "", Zero)

NextState ==
    \/ Step
    \/ SetPopulation
    \/ SetEnergy
    \/ SetGeneration
    \/ SetMutationRate
    \/ SetSelectionPressure
    \/ SetStateVector
    \/ LoadSnapshot
    \/ InitFromConfig

SpecState == Init /\ [][NextState]_vars

---------------------------------------------------------------------------
(* RuleRegistry *)

Put(map, key, value) ==
    [k \in DOMAIN map \cup {key} |-> IF k = key THEN value ELSE map[k]]

Drop(map, key) == [k \in DOMAIN map \ {key} |-> map[k]]

Contains(seq, x) == \E i \in 1..Len(seq) : seq[i] = x

Retain(seq, id) == SelectSeq(seq, LAMBDA rule_id : rule_id # id)

Rule(id, lisp_code, execution_count, total, lastTime, created_at) ==
    [id |-> id,
     lisp_code |-> lisp_code,
     execution_count |-> execution_count,
     total_execution_time_ms |-> total,
     last_execution_time_ms |-> lastTime,
     created_at |-> created_at]

\* The registry as a value: the two fields of RuleRegistry.
Registry(r, order) == [rules |-> r, execution_order |-> order]

\* Result<(), JsValue> together with the registry afterwards.
RegOk(reg) == [outcome |-> "ok", err |-> "", reg |-> reg]
RegErr(err, reg) == [outcome |-> "err", err |-> err, reg |-> reg]
RegPanic(reg) == [outcome |-> "panic", err |-> "", reg |-> reg]

\* Mutant of register_rule: the id is queued again on every registration.
register_rule_append(reg, id, lisp_code, now) ==
    IF id = ""
    THEN RegErr("Rule ID cannot be empty", reg)
    ELSE RegOk(Registry(Put(reg.rules, id, Rule(id, lisp_code, 0, Zero, Zero, now)),
                        Append(reg.execution_order, id)))

\* Mutant of register_rule: the empty id is refused after it was queued.
register_rule_dirty(reg, id, lisp_code, now) ==
    IF id = ""
    THEN RegErr("Rule ID cannot be empty",
                [reg EXCEPT !.execution_order = Append(@, id)])
    ELSE RegOk(Registry(Put(reg.rules, id, Rule(id, lisp_code, 0, Zero, Zero, now)),
                        IF Contains(reg.execution_order, id)
                        THEN reg.execution_order
                        ELSE Append(reg.execution_order, id)))

register_rule(reg, id, lisp_code, now) ==
    IF id = ""
    THEN RegErr("Rule ID cannot be empty", reg)
    ELSE RegOk(Registry(Put(reg.rules, id, Rule(id, lisp_code, 0, Zero, Zero, now)),
                        IF Contains(reg.execution_order, id)
                        THEN reg.execution_order
                        ELSE Append(reg.execution_order, id)))

\* bool returned, and the registry afterwards
remove_rule(reg, id) ==
    [ret |-> id \in DOMAIN reg.rules,
     reg |-> Registry(Drop(reg.rules, id), Retain(reg.execution_order, id))]

\* Option<String>
get_rule_code(reg, id) ==
    IF id \in DOMAIN reg.rules
    THEN [some |-> TRUE, value |-> reg.rules[id].lisp_code]
    ELSE [some |-> FALSE, value |-> ""]

get_rule_ids(reg) == reg.execution_order

get_rule_count(reg) == Cardinality(DOMAIN reg.rules)

\* Mutant of record_execution: an unknown id is inserted instead of refused.
record_execution_upsert(reg, id, execution_time_ms, overflow_checks) ==
    LET rule == IF id \in DOMAIN reg.rules THEN reg.rules[id]
                ELSE Rule(id, "", 0, Zero, Zero, 0)
    IN  IF rule.execution_count = U64Max /\ overflow_checks
        THEN RegPanic(reg)
        ELSE RegOk([reg EXCEPT !.rules = Put(@, id,
                [rule EXCEPT
                    !.execution_count = (@ + 1) % U64Modulus,
                    !.total_execution_time_ms = FAdd(@, execution_time_ms),
                    !.last_execution_time_ms = execution_time_ms])])

record_execution(reg, id, execution_time_ms, overflow_checks) ==
    IF id \in DOMAIN reg.rules
    THEN LET rule == reg.rules[id]
         IN  IF rule.execution_count = U64Max /\ overflow_checks
             THEN RegPanic(reg)
             ELSE RegOk([reg EXCEPT !.rules[id] =
                    [rule EXCEPT
                        !.execution_count = (@ + 1) % U64Modulus,
                        !.total_execution_time_ms = FAdd(@, execution_time_ms),
                        !.last_execution_time_ms = execution_time_ms]])
    ELSE RegErr("Rule not found", reg)

\* The record that get_rule_stats and get_all_stats build with json!.
StatsOf(rule) ==
    LET avg_time == IF rule.execution_count > 0
                    THEN FDiv(rule.total_execution_time_ms, U64ToF64(rule.execution_count))
                    ELSE Zero
    IN  JObject([id |-> JString(rule.id),
                 executionCount |-> SerU64(rule.execution_count),
                 totalExecutionTimeMs |-> SerF64(rule.total_execution_time_ms),
                 lastExecutionTimeMs |-> SerF64(rule.last_execution_time_ms),
                 averageExecutionTimeMs |-> SerF64(avg_time),
                 createdAt |-> SerU64(rule.created_at)])

\* Result<String, JsValue>
get_rule_stats(reg, id) ==
    IF id \in DOMAIN reg.rules
    THEN [outcome |-> "ok", err |-> "", ret |-> StatsOf(reg.rules[id])]
    ELSE [outcome |-> "err", err |-> "Rule not found", ret |-> JNull]

\* The records of the ids of execution_order that are keys of rules, in order.
get_all_stats(reg) ==
    LET present == SelectSeq(reg.execution_order, LAMBDA rule_id : rule_id \in DOMAIN reg.rules)
    IN  [i \in 1..Len(present) |-> StatsOf(reg.rules[present[i]])]

\* Mutant of clear_stats: only the counter is reset.
clear_stats_counts(reg) ==
    [reg EXCEPT !.rules = [id \in DOMAIN reg.rules |->
        [reg.rules[id] EXCEPT !.execution_count = 0]]]

clear_stats(reg) ==
    [reg EXCEPT !.rules = [id \in DOMAIN reg.rules |->
        [reg.rules[id] EXCEPT !.execution_count = 0,
                              !.total_execution_time_ms = Zero,
                              !.last_execution_time_ms = Zero]]]

\* serde's derived Serialize / Deserialize of Rule
RuleFields == {"id", "lisp_code", "execution_count", "total_execution_time_ms",
               "last_execution_time_ms", "created_at"}

RuleToJson(rule) ==
    JObject([id |-> JString(rule.id),
             lisp_code |-> JString(rule.lisp_code),
             execution_count |-> SerU64(rule.execution_count),
             total_execution_time_ms |-> SerF64(rule.total_execution_time_ms),
             last_execution_time_ms |-> SerF64(rule.last_execution_time_ms),
             created_at |-> SerU64(rule.created_at)])

RuleParses(j) ==
    /\ j.t = "object"
    /\ RuleFields \subseteq DOMAIN j.v
    /\ j.v.id.t = "string"
    /\ j.v.lisp_code.t = "string"
    /\ U64Ok(j.v.execution_count)
    /\ F64Ok(j.v.total_execution_time_ms)
    /\ F64Ok(j.v.last_execution_time_ms)
    /\ U64Ok(j.v.created_at)

RuleFromJson(j) ==
    Rule(j.v.id.v, j.v.lisp_code.v, DeU64(j.v.execution_count),
         DeF64(j.v.total_execution_time_ms), DeF64(j.v.last_execution_time_ms),
         DeU64(j.v.created_at))

\* serde_json::from_value::<HashMap<String, Rule>>
RulesParse(j) == j.t = "object" /\ \A k \in DOMAIN j.v : RuleParses(j.v[k])

RulesFromJson(j) == [k \in DOMAIN j.v |-> RuleFromJson(j.v[k])]

\* serde_json::from_value::<Vec<String>>
OrderParses(j) == j.t = "array" /\ \A i \in 1..Len(j.v) : j.v[i].t = "string"

OrderFromJson(j) == [i \in 1..Len(j.v) |-> j.v[i].v]

export_registry(reg) ==
    [wf |-> TRUE,
     fields |-> [rules |-> JObject([k \in DOMAIN reg.rules |-> RuleToJson(reg.rules[k])]),
                 executionOrder |-> JArray([i \in 1..Len(reg.execution_order) |->
                                               JString(reg.execution_order[i])])]]

\* Mutant of import_registry: both fields are parsed before either is assigned.
import_registry_atomic(reg, json) ==
    IF ~json.wf
    THEN RegErr("Failed to parse registry JSON", reg)
    ELSE IF "rules" \in DOMAIN json.fields /\ ~RulesParse(json.fields.rules)
    THEN RegErr("Failed to parse rules", reg)
    ELSE IF "executionOrder" \in DOMAIN json.fields
            /\ ~OrderParses(json.fields.executionOrder)
    THEN RegErr("Failed to parse execution order", reg)
    ELSE RegOk(Registry(IF "rules" \in DOMAIN json.fields
                        THEN RulesFromJson(json.fields.rules)
                        ELSE reg.rules,
                        IF "executionOrder" \in DOMAIN json.fields
                        THEN OrderFromJson(json.fields.executionOrder)
                        ELSE reg.execution_order))

import_registry(reg, json) ==
    IF ~json.wf
    THEN RegErr("Failed to parse registry JSON", reg)
    ELSE IF "rules" \in DOMAIN json.fields /\ ~RulesParse(json.fields.rules)
    THEN RegErr("Failed to parse rules", reg)
    ELSE LET reg1 == IF "rules" \in DOMAIN json.fields
                     THEN [reg EXCEPT !.rules = RulesFromJson(json.fields.rules)]
                     ELSE reg
         IN  IF "executionOrder" \in DOMAIN json.fields
                /\ ~OrderParses(json.fields.executionOrder)
             THEN RegErr("Failed to parse execution order", reg1)
             ELSE IF "executionOrder" \in DOMAIN json.fields
             THEN RegOk([reg1 EXCEPT !.execution_order =
                                         OrderFromJson(json.fields.executionOrder)])
             ELSE RegOk(reg1)

---------------------------------------------------------------------------
(* Coordinator *)

apply_rule_logic(s, params) ==
    IF Len(params) > 0
    THEN LET adjustment == params[1]
             set == set_mutation_rate(s, FAdd(s.mutation_rate, FMul(adjustment, Hundredth)))
         IN  Outcome(set.state, set.panic, set.state.adaptation_score)
    ELSE Outcome(s, FALSE, s.adaptation_score)

\* Mutant of apply_rule: the rule logic runs before the lookup.
apply_rule_logic_first(reg, s, rule_id, params, execution_time, overflow_checks) ==
    LET result == apply_rule_logic(s, params)
        recorded == record_execution(reg, rule_id, execution_time, overflow_checks)
    IN  IF result.panic
        THEN [outcome |-> "panic", err |-> "", ret |-> Zero,
              reg |-> reg, state |-> result.state]
        ELSE [outcome |-> recorded.outcome, err |-> recorded.err,
              ret |-> IF recorded.outcome = "ok" THEN result.ret ELSE Zero,
              reg |-> recorded.reg, state |-> result.state]

\* Result<f64, JsValue>, and both objects afterwards.  execution_time is the
\* difference of the two Date::now() readings.
apply_rule(reg, s, rule_id, params, execution_time, overflow_checks) ==
    IF ~get_rule_code(reg, rule_id).some
    THEN [outcome |-> "err", err |-> "Rule not found", ret |-> Zero,
          reg |-> reg, state |-> s]
    ELSE LET result == apply_rule_logic(s, params)
             recorded == record_execution(reg, rule_id, execution_time, overflow_checks)
         IN  IF result.panic
             THEN [outcome |-> "panic", err |-> "", ret |-> Zero,
                   reg |-> reg, state |-> result.state]
             ELSE [outcome |-> recorded.outcome, err |-> recorded.err,
                   ret |-> IF recorded.outcome = "ok" THEN result.ret ELSE Zero,
                   reg |-> recorded.reg, state |-> result.state]

---------------------------------------------------------------------------
(* Inputs of the registry and the coordinator *)

Ids == {"", "a", "b"}
Codes == {"(noop)", "(grow)"}
Timestamps == {2}
ExecTimes == {Two}
ParamLists == <<(<<>>), <<Lit(50, 0), One>>>>

RuleA(execution_count) == Rule("a", "(noop)", execution_count, Two, One, 1)

Document(fields) == [wf |-> TRUE, fields |-> fields]

Documents ==
    <<[wf |-> FALSE, fields |-> <<>>],
      Document(<<>>),
      Document([rules |-> JObject([a |-> RuleToJson(RuleA(1))])]),
      Document([executionOrder |-> JArray(<<JString("b"), JString("a")>>)]),
      Document([executionOrder |-> JArray(<<JString("a"), JString("a")>>)]),
      Document([rules |-> JObject([a |-> RuleToJson(RuleA(U64Max))]),
                executionOrder |-> JArray(<<JString("a")>>)]),
      Document([rules |-> JObject([a |-> RuleToJson(RuleA(1))]),
                executionOrder |-> JInt(5)]),
      Document([rules |-> JNull,
                executionOrder |-> JArray(<<JString("b")>>)])>>

---------------------------------------------------------------------------
(* Actions on the RuleRegistry *)

Reg == Registry(rules, execution_order)

RegistryCall(op, args, outcome, err, ret, reg) ==
    /\ rules' = reg.rules
    /\ execution_order' = reg.execution_order
    /\ aborted' = (outcome = "panic")
    /\ last' = Call(op, args, outcome, err, ret)
    /\ UNCHANGED state

\* A counter is bounded by MaxCount, or sits at the top of its range.
CountBounded(id) ==
    id \in DOMAIN rules =>
        \/ rules[id].execution_count < MaxCount
        \/ rules[id].execution_count = U64Max

CountOf(id) == IF id \in DOMAIN rules THEN rules[id].execution_count ELSE 0

RegisterRule ==
    \E id \in Ids, lisp_code \in Codes, now \in Timestamps :
        LET r == register_rule(Reg, id, lisp_code, now)
        IN  /\ ~aborted
            /\ RegistryCall("register_rule", <<id, lisp_code>>, r.outcome, r.err, Zero, r.reg)

RemoveRule ==
    \E id \in Ids :
        LET r == remove_rule(Reg, id)
        IN  /\ ~aborted
            /\ RegistryCall("remove_rule", <<id>>, "ok", "", r.ret, r.reg)

RecordExecution ==
    \E id \in Ids, execution_time_ms \in ExecTimes :
      \E overflow_checks \in Profiles(CountOf(id)) :
        LET r == record_execution(Reg, id, execution_time_ms, overflow_checks)
        IN  /\ ~aborted
            /\ CountBounded(id)
            /\ RegistryCall("record_execution", <<id, execution_time_ms>>,
                            r.outcome, r.err, Zero, r.reg)

GetRuleStats ==
    \E id \in Ids :
        LET r == get_rule_stats(Reg, id)
        IN  /\ ~aborted
            /\ RegistryCall("get_rule_stats", <<id>>, r.outcome, r.err, r.ret, Reg)

ClearStats ==
    /\ ~aborted
    /\ RegistryCall("clear_stats", <<>>, "ok", "", Zero, clear_stats(Reg))

ImportText(json) ==
    LET r == import_registry(Reg, json)
    IN  /\ ~aborted
        /\ RegistryCall("import_registry", <<json>>, r.outcome, r.err, Zero, r.reg)

\* import_registry: the text is a document from outside or the registry's own export.
ImportRegistry ==
    \/ \E i \in 1..Len(Documents) : ImportText(Documents[i])
    \/ ImportText(export_registry(Reg))

ApplyRule ==
    \E rule_id \in Ids, p \in 1..Len(ParamLists), execution_time \in ExecTimes :
      \E overflow_checks \in Profiles(CountOf(rule_id)) :
        LET r == apply_rule(Reg, state, rule_id, ParamLists[p], execution_time,
                            overflow_checks)
        IN  /\ ~aborted
            /\ CountBounded(rule_id)
            /\ state' = r.state
            /\ rules' = r.reg.rules
            /\ execution_order' = r.reg.execution_order
            /\ aborted' = (r.outcome = "panic")
            /\ last' = Call("apply_rule", <<rule_id, ParamLists[p]>>, r.outcome, r.err, r.ret)

NextRegistry ==
    \/ RegisterRule
    \/ RemoveRule
    \/ RecordExecution
    \/ ClearStats
    \/ ImportRegistry
    \/ GetRuleStats

SpecRegistry == Init /\ [][NextRegistry]_vars

Next ==
    \/ RegisterRule
    \/ RemoveRule
    \/ SetStateVector
    \/ LoadSnapshot
    \/ ApplyRule

Spec == Init /\ [][Next]_vars

\* The operations that can return a failure.
NextFallible ==
    \/ RegisterRule
    \/ RecordExecution
    \/ GetRuleStats
    \/ ImportRegistry
    \/ ApplyRule
    \/ LoadSnapshot
    \/ InitFromConfig

SpecFallible == Init /\ [][NextFallible]_vars

---------------------------------------------------------------------------
(* Properties *)

OrderIds(order) == {order[i] : i \in 1..Len(order)}

ScalarSetters == {"set_population", "set_energy", "set_generation",
                  "set_mutation_rate", "set_selection_pressure"}

\* C1 (I3): between operations the ids of execution_order are exactly the keys
\* of rules.
RegistryConsistent == OrderIds(execution_order) = DOMAIN rules

\* C2 (I1): right after step, set_population, set_energy or set_mutation_rate
\* the first three entries of state_vector are population, energy, mutation_rate.
VectorSynchronised ==
    last.op \in {"step", "set_population", "set_energy", "set_mutation_rate"} =>
        /\ Len(state.state_vector) >= 3
        /\ state.state_vector[1] = state.population
        /\ state.state_vector[2] = state.energy
        /\ state.state_vector[3] = state.mutation_rate

\* C3: no operation panics; every call returns Ok or an error value.
NeverAborts == ~aborted /\ last.outcome \in {"ok", "err"}

\* C4: after a step with delta_time > 0 has returned, population >= 1.0 and
\* 0 <= energy <= 10000.
PostStepBounds ==
    (last.op = "step" /\ last.outcome = "ok" /\ FLe(Zero, last.args[1])
        /\ last.args[1] # Zero) =>
        /\ FLe(One, state.population)
        /\ FLe(Zero, state.energy)
        /\ FLe(state.energy, TenThousand)

\* A step with delta_time 1.0 has returned having clamped both fields:
\* population up to 1 and energy down to 10000.
PostStepBoundsWitness ==
    /\ last.op = "step"
    /\ last.outcome = "ok"
    /\ last.args[1] = One
    /\ state.population = One
    /\ state.energy = TenThousand
    /\ state.age = 1

\* C5 (I2): after a scalar setter or step has returned, 0 <= energy <= 10000.
EnergyInRange ==
    (last.op \in ScalarSetters \cup {"step"} /\ last.outcome = "ok") =>
        /\ FLe(Zero, state.energy)
        /\ FLe(state.energy, TenThousand)

\* C6: load_snapshot never panics; when it returns an error the object is as it
\* was, state_vector included; when it returns Ok every field is the one of the
\* text and state_vector is the default (empty) vector; a text that is malformed
\* or lacks a required field is refused.
AtomicRestore ==
    [][last'.op = "load_snapshot" =>
        LET text == last'.args[1]
        IN  /\ last'.outcome \in {"ok", "err"}
            /\ last'.outcome = "err" => state' = state
            /\ last'.outcome = "ok" =>
                /\ \A f \in F64Fields : state'[f] = DeF64(text.fields[f])
                /\ \A f \in U64Fields : state'[f] = DeU64(text.fields[f])
                /\ state'.state_vector = <<>>
            /\ (~text.wf \/ ~(SerdeFields \subseteq DOMAIN text.fields)) =>
                last'.outcome = "err"]_vars

\* A text lacking a field has been refused by an object that is not the default
\* one and still has its four-entry vector.
AtomicRestoreWitness ==
    /\ last.op = "load_snapshot"
    /\ last.outcome = "err"
    /\ last.args[1].wf
    /\ "mutation_rate" \notin DOMAIN last.args[1].fields
    /\ Len(state.state_vector) = 4
    /\ state.generation = 7

\* C7: loading the object's own snapshot succeeds and keeps the seven scalar
\* fields.
SnapshotRoundTrip ==
    [][(last'.op = "load_snapshot" /\ last'.args[1] = get_snapshot(state)) =>
        /\ last'.outcome = "ok"
        /\ \A f \in SerdeFields : state'[f] = state[f]]_vars

\* C8: remove_rule(id) right after a successful register_rule(id, body) returns
\* true, leaves get_rule_code(id) absent and shortens get_rule_ids() by one.
RegisterThenRemove ==
    [][(/\ last.op = "register_rule"
        /\ last.outcome = "ok"
        /\ last'.op = "remove_rule"
        /\ last'.args[1] = last.args[1]) =>
        /\ last'.ret = TRUE
        /\ ~get_rule_code(Reg', last'.args[1]).some
        /\ Len(get_rule_ids(Reg')) = Len(get_rule_ids(Reg)) - 1]_vars

\* C9: record_execution on an id that is not a key of rules returns the
\* "Rule not found" error and changes neither rules nor execution_order.
RecordUnknownRefused ==
    [][(last'.op = "record_execution" /\ last'.args[1] \notin DOMAIN rules) =>
        /\ last'.outcome = "err"
        /\ last'.err = "Rule not found"
        /\ rules' = rules
        /\ execution_order' = execution_order]_vars

\* record_execution has been refused for an id that is listed in
\* execution_order but is no key of rules, while another rule has statistics.
RecordUnknownRefusedWitness ==
    /\ last.op = "record_execution"
    /\ last.outcome = "err"
    /\ last.args[1] = "b"
    /\ Contains(execution_order, "b")
    /\ "a" \in DOMAIN rules
    /\ rules["a"].execution_count = 2

\* C10: apply_rule with an id that is not a key of rules returns the
\* "Rule not found" error and changes neither the registry nor the state.
ApplyUnknownRefused ==
    [][(last'.op = "apply_rule" /\ last'.args[1] \notin DOMAIN rules) =>
        /\ last'.outcome = "err"
        /\ last'.err = "Rule not found"
        /\ state' = state
        /\ rules' = rules
        /\ execution_order' = execution_order]_vars

\* apply_rule with parameters has been refused for an unknown id while a rule
\* with statistics is registered and the state has no vector to store into.
ApplyUnknownRefusedWitness ==
    /\ last.op = "apply_rule"
    /\ last.outcome = "err"
    /\ last.args[1] = "b"
    /\ Len(last.args[2]) > 0
    /\ "a" \in DOMAIN rules
    /\ rules["a"].execution_count > 0
    /\ state.state_vector = <<>>

\* C11: apply_rule with a registered id returns Ok with the state's
\* adaptation_score; with parameters mutation_rate becomes
\* clamp(mutation_rate + params[0] * 0.01, 0, 1) and state_vector[2] follows it,
\* without parameters the state is unchanged; the rule's execution_count grows
\* by exactly 1; every other field of the state is unchanged.
ApplyRegistered ==
    [][(last'.op = "apply_rule" /\ last'.args[1] \in DOMAIN rules) =>
        LET id == last'.args[1]
            params == last'.args[2]
        IN  /\ last'.outcome = "ok"
            /\ last'.ret = state'.adaptation_score
            /\ IF Len(params) > 0
               THEN /\ state'.mutation_rate =
                          FMin(FMax(FAdd(state.mutation_rate,
                                         FMul(params[1], Hundredth)), Zero), One)
                    /\ Len(state'.state_vector) >= 3
                    /\ state'.state_vector[3] = state'.mutation_rate
               ELSE state' = state
            /\ \A f \in (SerdeFields \ {"mutation_rate"}) : state'[f] = state[f]
            /\ id \in DOMAIN rules'
            /\ rules'[id].execution_count = rules[id].execution_count + 1]_vars

\* The two objects are as they were before the step.
ObjectsUnchanged ==
    /\ state' = state
    /\ rules' = rules
    /\ execution_order' = execution_order

\* The calls that the claims expect to fail.
ExpectedFailure(call) ==
    \/ call.op = "register_rule" /\ call.args[1] = ""
    \/ call.op \in {"record_execution", "get_rule_stats", "apply_rule"}
           /\ call.args[1] \notin DOMAIN rules
    \/ call.op \in {"load_snapshot", "init_from_config"} /\ ~Parses(call.args[1])
    \/ call.op = "import_registry" /\ ~call.args[1].wf

\* C12 as stated: every operation that returns a failure leaves the state and
\* the registry exactly as they were.
FailClean ==
    [][last'.outcome = "err" => ObjectsUnchanged]_vars

\* C12 amended: the expected failures are returned as failures, and an operation
\* that returns a failure leaves the state and the registry as they were, except
\* import_registry failing on executionOrder, which has replaced rules by the
\* text's rules and left the rest.
FailCleanButImport ==
    [][/\ ExpectedFailure(last') => last'.outcome = "err"
       /\ last'.outcome = "err" =>
            \/ ObjectsUnchanged
            \/ /\ last'.op = "import_registry"
               /\ last'.err = "Failed to parse execution order"
               /\ "rules" \in DOMAIN last'.args[1].fields
               /\ rules' = RulesFromJson(last'.args[1].fields.rules)
               /\ execution_order' = execution_order
               /\ state' = state]_vars

\* import_registry has failed on executionOrder with rules already replaced:
\* the registry holds the imported rule "a" under the order of the rule "b".
FailCleanButImportWitness ==
    /\ last.op = "import_registry"
    /\ last.outcome = "err"
    /\ last.err = "Failed to parse execution order"
    /\ DOMAIN rules = {"a"}
    /\ rules["a"].created_at = 1
    /\ execution_order = <<"b">>
    /\ state.state_vector = <<>>

\* C13: register_rule with an empty id returns the empty-id error and changes
\* nothing; with another id it stores a rule with the given body and zero
\* statistics, leaves the other rules alone, and appends the id to execution_order
\* only if it was not there, so a re-registration keeps every position.
RegisterRuleEffect ==
    [][last'.op = "register_rule" =>
        LET id == last'.args[1]
            lisp_code == last'.args[2]
        IN  IF id = ""
            THEN /\ last'.outcome = "err"
                 /\ last'.err = "Rule ID cannot be empty"
                 /\ rules' = rules
                 /\ execution_order' = execution_order
            ELSE /\ last'.outcome = "ok"
                 /\ DOMAIN rules' = DOMAIN rules \cup {id}
                 /\ rules'[id].id = id
                 /\ rules'[id].lisp_code = lisp_code
                 /\ rules'[id].execution_count = 0
                 /\ rules'[id].total_execution_time_ms = Zero
                 /\ rules'[id].last_execution_time_ms = Zero
                 /\ \A other \in DOMAIN rules \ {id} : rules'[other] = rules[other]
                 /\ execution_order' =
                        IF \E i \in 1..Len(execution_order) : execution_order[i] = id
                        THEN execution_order
                        ELSE execution_order \o <<id>>]_vars

\* "a" has been registered again while "b" stood behind it: it kept the first
\* position and its statistics are zero, next to a rule that has executions.
RegisterRuleEffectWitness ==
    /\ last.op = "register_rule"
    /\ last.args[1] = "a"
    /\ execution_order = <<"a", "b">>
    /\ rules["a"].execution_count = 0
    /\ "b" \in DOMAIN rules
    /\ rules["b"].execution_count > 0

\* C14: clear_stats zeroes the three statistics of every rule and leaves each
\* rule's id, body and created_at, the set of rules and execution_order alone.
ClearStatsEffect ==
    [][last'.op = "clear_stats" =>
        /\ last'.outcome = "ok"
        /\ DOMAIN rules' = DOMAIN rules
        /\ \A id \in DOMAIN rules :
              rules'[id] = Rule(rules[id].id, rules[id].lisp_code, 0, Zero, Zero,
                                rules[id].created_at)
        /\ execution_order' = execution_order]_vars

\* clear_stats has run on a registry that held the imported rule "a", whose
\* statistics were not zero, next to a rule registered later.
ClearStatsEffectWitness ==
    /\ last.op = "clear_stats"
    /\ DOMAIN rules = {"a", "b"}
    /\ rules["a"] = Rule("a", "(noop)", 0, Zero, Zero, 1)
    /\ rules["b"].created_at = 2
    /\ Len(execution_order) > 0

\* C15: in every reachable state mutation_rate and selection_pressure are
\* within [0.0, 1.0].
ParameterRanges ==
    /\ FLe(Zero, state.mutation_rate) /\ FLe(state.mutation_rate, One)
    /\ FLe(Zero, state.selection_pressure) /\ FLe(state.selection_pressure, One)

\* C16: step(dt) returns normally, increments age by exactly 1, sets population
\* to max(p + p*(e/1000)*(1-m)*dt, 1), sets energy to
\* clamp(e - grown*0.1*dt + 10*dt, 0, 10000) with grown the population after
\* growth and before its clamp, sets and returns adaptation_score computed from
\* the values after the step, and leaves generation, mutation_rate and
\* selection_pressure unchanged; from the default state step(1.0) yields
\* population 199, energy 990.1 and age 1.
StepPostcondition ==
    [][last'.op = "step" =>
        \A dt \in {last'.args[1]}, post \in {state'}, ret \in {last'.ret} :
            LET p == state.population
                e == state.energy
                m == state.mutation_rate
                grown == FAdd(p, FMul(FMul(p, FMul(FDiv(e, Thousand), FSub(One, m))), dt))
                spent == FMul(FMul(grown, Tenth), dt)
                score == FDiv(FAdd(FAdd(FMin(FDiv(post.population, Hundred), Two),
                                        FMin(FDiv(post.energy, Thousand), One)),
                                   FMin(FDiv(U64ToF64(post.age), Hundred), One)),
                              Three)
            IN  /\ last'.outcome = "ok"
                /\ post.age = state.age + 1
                /\ post.population = FMax(grown, One)
                /\ post.energy = FMin(FMax(FAdd(FSub(e, spent), FMul(Ten, dt)), Zero),
                                      TenThousand)
                /\ post.adaptation_score = score
                /\ ret = score
                /\ post.generation = state.generation
                /\ post.mutation_rate = state.mutation_rate
                /\ post.selection_pressure = state.selection_pressure
                /\ (state = New /\ dt = One) =>
                        /\ post.population = Lit(199, 0)
                        /\ post.energy = Lit(990, 10)
                        /\ post.age = 1]_vars

\* C17: a successful record_execution(id, t) increases the rule's
\* execution_count by exactly 1, adds t to its total_execution_time, sets its
\* last_execution_time to t and changes no other rule; the count starts from zero
\* at every registration, import and clear_stats, so that it equals the number of
\* recordings since then; and get_rule_stats reports the average total/count
\* when count > 0 and 0 otherwise.
RecordAccumulates ==
    [][/\ (last'.op = "record_execution" /\ last'.outcome = "ok") =>
            \A id \in {last'.args[1]}, t \in {last'.args[2]} :
                /\ DOMAIN rules' = DOMAIN rules
                /\ rules'[id].execution_count = rules[id].execution_count + 1
                /\ rules'[id].total_execution_time_ms =
                        FAdd(rules[id].total_execution_time_ms, t)
                /\ rules'[id].last_execution_time_ms = t
                /\ \A other \in DOMAIN rules \ {id} : rules'[other] = rules[other]
       /\ (last'.op = "register_rule" /\ last'.outcome = "ok") =>
            rules'[last'.args[1]].execution_count = 0
       /\ (last'.op = "import_registry" /\ rules' # rules) =>
            \A id \in DOMAIN rules' : rules'[id].execution_count = 0
       /\ last'.op = "clear_stats" =>
            \A id \in DOMAIN rules' : rules'[id].execution_count = 0
       /\ (last'.op = "get_rule_stats" /\ last'.outcome = "ok") =>
            \A rule \in {rules[last'.args[1]]} :
                last'.ret.v.averageExecutionTimeMs =
                    IF rule.execution_count > 0
                    THEN JFloat(FDiv(rule.total_execution_time_ms,
                                     U64ToF64(rule.execution_count)))
                    ELSE JFloat(Zero)]_vars

\* C18: import_registry of a text that parses replaces rules and leaves
\* execution_order when the text has only "rules", replaces execution_order and
\* leaves rules when it has only "executionOrder", changes nothing and returns Ok
\* when it has neither, and returns an error with rules replaced and
\* execution_order unchanged when "rules" parses and "executionOrder" is malformed.
ImportPartialMerge ==
    [][(last'.op = "import_registry" /\ last'.args[1].wf) =>
        \A fields \in {last'.args[1].fields} :
            LET hasRules == "rules" \in DOMAIN fields
                hasOrder == "executionOrder" \in DOMAIN fields
            IN  /\ (hasRules /\ ~hasOrder /\ RulesParse(fields.rules)) =>
                        /\ last'.outcome = "ok"
                        /\ rules' = RulesFromJson(fields.rules)
                        /\ execution_order' = execution_order
                /\ (~hasRules /\ hasOrder /\ OrderParses(fields.executionOrder)) =>
                        /\ last'.outcome = "ok"
                        /\ execution_order' = OrderFromJson(fields.executionOrder)
                        /\ rules' = rules
                /\ (~hasRules /\ ~hasOrder) =>
                        /\ last'.outcome = "ok"
                        /\ rules' = rules
                        /\ execution_order' = execution_order
                /\ (hasRules /\ hasOrder /\ RulesParse(fields.rules)
                        /\ ~OrderParses(fields.executionOrder)) =>
                        /\ last'.outcome = "err"
                        /\ rules' = RulesFromJson(fields.rules)
                        /\ execution_order' = execution_order]_vars

\* import_registry has returned the executionOrder error on a registry whose
\* order was <<"b", "a">>: the order stands, the rules are those of the text,
\* and "b" is queued without a rule.
ImportPartialMergeWitness ==
    /\ last.op = "import_registry"
    /\ last.outcome = "err"
    /\ last.args[1].wf
    /\ "executionOrder" \in DOMAIN last.args[1].fields
    /\ ~OrderParses(last.args[1].fields.executionOrder)
    /\ execution_order = <<"b", "a">>
    /\ rules = [id \in {"a"} |-> RuleA(1)]

\* C19: set_state_vector(v) with fewer than three entries changes nothing; with
\* three or more it sets population, energy and mutation_rate to v[0], v[1], v[2],
\* replaces state_vector by v, entries past the third included, and leaves
\* generation, age, selection_pressure and adaptation_score alone; either way the
\* first three entries of state_vector equal the three fields afterwards if they
\* did before.
SetStateVectorEffect ==
    [][last'.op = "set_state_vector" =>
        \A v \in {last'.args[1]} :
            LET Synchronised(s) ==
                    /\ Len(s.state_vector) >= 3
                    /\ s.state_vector[1] = s.population
                    /\ s.state_vector[2] = s.energy
                    /\ s.state_vector[3] = s.mutation_rate
            IN  /\ last'.outcome = "ok"
                /\ IF Len(v) < 3
                   THEN state' = state
                   ELSE /\ state'.population = v[1]
                        /\ state'.energy = v[2]
                        /\ state'.mutation_rate = v[3]
                        /\ state'.state_vector = v
                        /\ state'.generation = state.generation
                        /\ state'.age = state.age
                        /\ state'.selection_pressure = state.selection_pressure
                        /\ state'.adaptation_score = state.adaptation_score
                /\ Synchronised(state) => Synchronised(state')]_vars

\* A four-entry vector has been set on a state that had been stepped and given
\* generation 7: the fourth entry is kept and the untouched fields stand.
SetStateVectorEffectWitness ==
    /\ last.op = "set_state_vector"
    /\ Len(last.args[1]) = 4
    /\ state.state_vector = last.args[1]
    /\ state.population = last.args[1][1]
    /\ state.generation = 7
    /\ state.age > 0
    /\ state.adaptation_score # Zero

\* C20: execution_order holds each id at most once, so get_rule_count equals the
\* length of get_rule_ids and get_all_stats returns one record per registered
\* rule, in execution_order.
NoDuplicateIds ==
    /\ \A i, j \in 1..Len(execution_order) :
            execution_order[i] = execution_order[j] => i = j
    /\ get_rule_count(Reg) = Len(get_rule_ids(Reg))
    /\ Len(get_all_stats(Reg)) = get_rule_count(Reg)
    /\ \A i \in 1..Len(get_all_stats(Reg)) :
            get_all_stats(Reg)[i].v.id = JString(execution_order[i])

====
